---- MODULE Spec2Model ----
(***************************************************************************)
(* Canvas TUI (src/canvas_tui.py): the remote API gateway (CanvasAPI), the *)
(* task aggregator (CanvasTUI.refresh_tasks) and the key / form handlers   *)
(* of the application, as a state machine.                                 *)
(*                                                                         *)
(* Time is counted in seconds.  An instant is a number of seconds since an *)
(* arbitrary epoch in UTC; a naive datetime is the wall-clock reading of   *)
(* an instant in some zone, i.e. instant + utcoffset of that zone.         *)
(***************************************************************************)
EXTENDS Integers, Sequences, FiniteSets, TLC

VARIABLES
    configured,   \* Config.is_configured(): both keys present in config.json
    tokenValid,   \* what GET /users/self answers for the configured token
    tz,           \* utcoffset (seconds) of the machine's local zone
    clock,        \* the instant (UTC seconds) at which the handlers run
    server,       \* what the upstream lists: courses, notes, events, assignments
    pc,           \* "start" | "idle" | "form" | "crashed"
    canvas,       \* self.canvas: "None" or "CanvasAPI"
    columns,      \* TRUE once on_mount has added the table columns
    courses,      \* self.courses
    tasks,        \* self.tasks
    rows,         \* rows of the DataTable #tasks_table
    http,         \* HTTP requests issued by the last handler, in order
    replies,      \* the answers to the POST requests among them, in order
    submitted,    \* the task data the form handed over in the last handler, or NoData
    notice,       \* texts passed to notify() by the last handler, in order
    result,       \* what create_task returned in the last handler (or NoResult)
    refreshes,    \* number of refresh_tasks runs started by the last handler
    last,         \* name of the last handler that ran
    browser,      \* URL handed to webbrowser.open by the last handler, or NoUrl
    fetched,      \* last gateway call made in isolation: its response and return
    got,          \* the lists the fetch operations returned to the refresh_tasks
                  \* run of the last handler, or NoGot
    held          \* self.tasks as it was when the last handler started

vars == <<configured, tokenValid, tz, clock, server, pc, canvas, columns,
          courses, tasks, rows, http, replies, submitted, notice, result,
          refreshes, last, browser, fetched, got,
          held>>

----------------------------------------------------------------------------
(* Units and program constants *)

Hour == 60 * 60
Day  == 24 * Hour

\* timedelta(days=30), lines 456-457
WindowDays == 30
Window == WindowDays * Day

\* utcoffset of ZoneInfo('Asia/Manila') in hours (no DST), lines 459, 490
ManilaUtcOffsetHours == 8
ManilaOffset == ManilaUtcOffsetHours * Hour

\* status code tested by the fetch operations, lines 88, 104, 120, 142
HTTP_OK == 200
\* status codes accepted by the create operations, lines 167, 199
HTTP_CREATED == 201

\* date.max.toordinal(): the last day a datetime can hold (9999-12-31)
MAXORDINAL == 3652059
\* the ordinal of the day on which instant 0 falls.  The epoch is put near
\* the end of the datetime range so that today's dates and datetime.max are
\* both within reach of 32-bit seconds.
EpochOrdinal == MAXORDINAL - 1000
MinutesPerDay == 24 * 60

----------------------------------------------------------------------------
(* Bounds of the model *)

\* most items (notes + events + assignments) the upstream holds in Spec
MaxItems == 2
\* most items the upstream holds in SpecAgg
MaxAggItems == 1
\* most items the upstream holds in SpecSort
MaxSortItems == 3
\* most items in a response body in SpecFetch
MaxFetchItems == 2

\* the instant at which the model starts
Clock0 == 400 * Day
\* utcoffsets of the machines the program is run on: New York (EST), UTC, Manila
MachineOffsets == {(0 - 5) * Hour, 0, ManilaOffset}

None == 0   \* a missing / null / falsy id

----------------------------------------------------------------------------
(* Sequences *)

\* all sequences over S of length at most n
SeqsUpTo(S, n) == UNION {[1..k -> S] : k \in 0..n}

----------------------------------------------------------------------------
(* Dates as they travel in JSON, and dateutil's isoparse                   *)
(*                                                                         *)
(* A date string is [wall, zone]: wall is the wall-clock reading written   *)
(* in the string, zone its suffix ("" for none, "Z", "+08:00", "-05:00").  *)
(* NoDate is a null or missing field, Garbage a string isoparse rejects.   *)

NoDate  == [wall |-> 0, zone |-> "None"]
Garbage == [wall |-> 0, zone |-> "garbage"]

Suffixes == {"", "Z", "+08:00", "-05:00"}

SuffixOffset(zone) ==
    CASE zone = "+08:00" -> 8 * Hour
      [] zone = "-05:00" -> (0 - 5) * Hour
      [] OTHER -> 0

\* the date string with suffix `zone` that denotes instant `t`
DateStr(t, zone) == [wall |-> t + SuffixOffset(zone), zone |-> zone]

\* bool(value) of a date field
Truthy(d) == d.zone # "None"

isoparse_raises(d) == d.zone \notin Suffixes

\* an aware datetime carries its utcoffset; a naive one carries none
isoparse(d) ==
    [naive |-> d.wall, aware |-> d.zone # "", utcoffset |-> SuffixOffset(d.zone)]

\* datetime.replace(tzinfo=timezone.utc): relabel, the reading is kept
replace_utc(naive) == [naive |-> naive, aware |-> TRUE, utcoffset |-> 0]

\* datetime.astimezone(zone): same instant, read in the target zone
astimezone(dt, offset) ==
    [naive |-> dt.naive - dt.utcoffset + offset, aware |-> TRUE, utcoffset |-> offset]

\* the normalisation every loop of refresh_tasks applies to a parsed date
to_manila_naive(d) ==
    LET due == isoparse(d) IN
    IF due.aware
    THEN astimezone(due, ManilaOffset).naive
    ELSE astimezone(replace_utc(due.naive), ManilaOffset).naive

\* datetime.now(): the machine's local wall clock, naive
now_local(t, off) == t + off

\* datetime.now(ZoneInfo('Asia/Manila')).replace(tzinfo=None)
now_manila_of(t) == astimezone([naive |-> t, aware |-> TRUE, utcoffset |-> 0], ManilaOffset).naive

\* future = now + timedelta(days=30)
future_of(t, off) == now_local(t, off) + Window

\* cutoff = now - timedelta(days=30): computed, passed to get_calendar_events,
\* compared with nothing
cutoff_of(t, off) == now_local(t, off) - Window

\* future.replace(tzinfo=timezone.utc).astimezone(ZoneInfo("Asia/Manila")).replace(tzinfo=None)
future_manila_of(t, off) == astimezone(replace_utc(future_of(t, off)), ManilaOffset).naive

\* the test `now_manila <= due_naive <= future_manila`
in_window(due_naive, t, off) ==
    /\ now_manila_of(t) <= due_naive
    /\ due_naive <= future_manila_of(t, off)

\* datetime.date(): the day of a naive datetime
date_of(naive) == naive \div Day

\* strftime("%m/%d %H:%M"): the seconds are not printed
strftime_md_hm(naive) == naive \div 60

----------------------------------------------------------------------------
(* Remote API gateway: class CanvasAPI                                     *)
(*                                                                         *)
(* What the network answers to one request is a response                   *)
(*   [exc, status, body]: exc = "request" when requests.get / post raises  *)
(*   (timeout, connection refused), "decode" when response.json() raises,  *)
(*   "none" otherwise; body is the decoded JSON (GET) or the text (POST).  *)
(* Every gateway call yields [ret, reqs, raised]: the value returned, the  *)
(* HTTP requests issued in order, and whether an exception escaped.        *)

BaseUrl == "https://canvas.test"

Request(method, path) == [method |-> method, path |-> path]

\* get_list without the status test: any decodable answer is returned
get_list_any_status(path, resp) ==
    [ret    |-> IF resp.exc = "none" THEN resp.body ELSE <<>>,
     reqs   |-> <<Request("GET", path)>>,
     raised |-> FALSE]

\* try: response = requests.get(...); if response.status_code == 200:
\* return response.json(); return []; except Exception: return []
get_list(path, resp) ==
    [ret    |-> IF resp.exc = "none" /\ resp.status = HTTP_OK THEN resp.body ELSE <<>>,
     reqs   |-> <<Request("GET", path)>>,
     raised |-> FALSE]

get_active_courses(resp) == get_list("/api/v1/courses", resp)

get_assignments(course_id, resp) ==
    get_list("/api/v1/courses/" \o ToString(course_id) \o "/assignments", resp)

get_planner_notes(resp) == get_list("/api/v1/planner_notes", resp)

\* start_date and end_date only travel as query parameters
get_calendar_events(start_date, end_date, resp) ==
    [ret    |-> IF resp.exc = "none" /\ resp.status = HTTP_OK THEN resp.body ELSE <<>>,
     reqs   |-> <<[method |-> "GET", path |-> "/api/v1/calendar_events",
                   start_date |-> date_of(start_date), end_date |-> date_of(end_date)]>>,
     raised |-> FALSE]

\* GET /api/v1/users/self; True only on a decodable 200
validate_token(resp) ==
    [ret    |-> resp.exc = "none" /\ resp.status = HTTP_OK,
     reqs   |-> <<Request("GET", "/api/v1/users/self")>>,
     raised |-> FALSE]

(* Creating a task.  A datetime typed into the form is [ord, min]: the     *)
(* proleptic ordinal of its day (date.toordinal()) and the minute of the   *)
(* day.  Its ISO text is [date, hh, mm, tz], tz = "" for a naive value.    *)

isoformat(dt) ==
    [date |-> dt.ord, hh |-> dt.min \div 60, mm |-> dt.min % 60, tz |-> ""]

\* str.replace('Z', '+00:00')
replace_Z(iso) == IF iso.tz = "Z" THEN [iso EXCEPT !.tz = "+00:00"] ELSE iso

fromisoformat(iso) == [ord |-> iso.date, min |-> iso.hh * 60 + iso.mm]

\* dt + timedelta(hours=1) raises OverflowError past 9999-12-31
add_hour_overflows(dt) == dt.min + 60 >= MinutesPerDay /\ dt.ord + 1 > MAXORDINAL

\* add_hour with timedelta(days=1) in the place of timedelta(hours=1)
add_day(dt) == [ord |-> dt.ord + 1, min |-> dt.min]

add_hour(dt) ==
    IF dt.min + 60 >= MinutesPerDay
    THEN [ord |-> dt.ord + 1, min |-> dt.min + 60 - MinutesPerDay]
    ELSE [ord |-> dt.ord, min |-> dt.min + 60]

NoResult == [called |-> FALSE]

\* a POST answer counts as created on 200 or 201 with a decodable body
post_ok(resp) == resp.exc = "none" /\ resp.status \in {HTTP_OK, HTTP_CREATED}

\* {'success': False, 'error': response.text} or {'success': False, 'error': str(e)}
post_failure(resp) ==
    [success |-> FALSE,
     error   |-> IF resp.exc = "none" THEN resp.text ELSE resp.msg]

planner_note_payload(title, details, todo_date, course_id) ==
    IF course_id # None
    THEN [title |-> title, details |-> details, todo_date |-> todo_date,
          course_id |-> course_id]
    ELSE [title |-> title, details |-> details, todo_date |-> todo_date]

create_planner_note(title, details, todo_date, course_id, resp) ==
    [ret    |-> IF post_ok(resp)
                THEN [success |-> TRUE, data |-> resp.text, method |-> "planner_note"]
                ELSE post_failure(resp),
     reqs   |-> <<[method |-> "POST", path |-> "/api/v1/planner_notes",
                   json |-> planner_note_payload(title, details, todo_date, course_id)]>>,
     raised |-> FALSE]

\* the title prefix, a clipboard emoji and a space in the source, is written
\* "[clipboard] " here
calendar_event_payload(title, description, start_at, end_at, course_id) ==
    LET event == [title       |-> "[clipboard] " \o title,
                  description |-> "Task: " \o title \o "\n\n" \o description,
                  start_at    |-> start_at,
                  end_at      |-> end_at,
                  all_day     |-> FALSE]
    IN  IF course_id # None
        THEN [calendar_event |->
                [title |-> event.title, description |-> event.description,
                 start_at |-> event.start_at, end_at |-> event.end_at,
                 all_day |-> event.all_day,
                 context_code |-> "course_" \o ToString(course_id)]]
        ELSE [calendar_event |-> event]

\* end_at is computed before the try: an OverflowError there escapes and
\* no request is issued
create_calendar_event(title, description, start_at, course_id, resp) ==
    LET start == fromisoformat(replace_Z(start_at)) IN
    IF add_hour_overflows(start)
    THEN [ret |-> NoResult, reqs |-> <<>>, raised |-> TRUE]
    ELSE
      [ret    |-> IF post_ok(resp)
                  THEN [success |-> TRUE, data |-> resp.text, method |-> "calendar_event"]
                  ELSE post_failure(resp),
       reqs   |-> <<[method |-> "POST", path |-> "/api/v1/calendar_events",
                     json |-> calendar_event_payload(title, description, start_at,
                                  isoformat(add_hour(start)), course_id)]>>,
       raised |-> FALSE]

AllMethodsFailed == [success |-> FALSE, error |-> "All methods failed", method |-> "none"]

create_task(title, description, due_date, course_id, resp1, resp2) ==
    LET iso_date == isoformat(due_date)
        note     == create_planner_note(title, description, iso_date, course_id, resp1)
        event    == create_calendar_event(title, description, iso_date, course_id, resp2)
    IN  IF note.ret.success
        THEN note
        ELSE IF event.raised
        THEN [ret |-> NoResult, reqs |-> note.reqs \o event.reqs, raised |-> TRUE]
        ELSE IF event.ret.success
        THEN [ret |-> event.ret, reqs |-> note.reqs \o event.reqs, raised |-> FALSE]
        ELSE [ret |-> AllMethodsFailed, reqs |-> note.reqs \o event.reqs, raised |-> FALSE]

----------------------------------------------------------------------------
(* Task aggregator: CanvasTUI.refresh_tasks                                *)
(*                                                                         *)
(* A JSON object is a record; a key the object lacks is a field the record *)
(* lacks.  A null string is "None", a null id is None, a null date NoDate. *)

\* dict.get(key, default)
Get(obj, key, default) == IF key \in DOMAIN obj THEN obj[key] ELSE default

HasKey(obj, key) == key \in DOMAIN obj

NoUrl == ""   \* url None (or empty): `not url` holds

\* str(x) of a course id, as the table prints the course column
StrId(id) == IF id = None THEN "None" ELSE ToString(id)

\* note_active without the test
note_active_always(note) == TRUE

\* line 478: the note is neither resolved nor inactive
note_active(note) == Get(note, "workflow_state", "None") \in {"None", "active"}

\* lines 476-517: one planner note gives one task or none
note_task(note, t, off) ==
    IF ~note_active(note) THEN <<>>
    ELSE IF ~Truthy(Get(note, "todo_date", NoDate)) THEN <<>>
    ELSE IF Get(note, "course_id", None) # None /\ ~HasKey(note, "id") THEN <<>>
    ELSE IF isoparse_raises(note.todo_date) THEN <<>>
    ELSE LET due_naive == to_manila_naive(note.todo_date) IN
         IF ~in_window(due_naive, t, off) THEN <<>>
         ELSE IF ~HasKey(note, "title") THEN <<>>
         ELSE <<[title    |-> note.title,
                 due_date |-> due_naive,
                 course   |-> IF HasKey(note, "course_id")
                              THEN StrId(note.course_id) ELSE "Personal",
                 type     |-> "Planner Note",
                 url      |-> IF Get(note, "course_id", None) # None
                              THEN BaseUrl \o "/courses/" \o ToString(note.course_id)
                                   \o "/planner_items?filter=planner_note_"
                                   \o ToString(note.id)
                              ELSE NoUrl,
                 raw      |-> note]>>

\* lines 520-554: one calendar event gives one task or none
event_date(event) ==
    IF Truthy(Get(event, "start_at", NoDate)) THEN event.start_at
    ELSE Get(event, "all_day_date", NoDate)

event_task(event, t, off) ==
    LET d == event_date(event) IN
    IF ~Truthy(d) THEN <<>>
    ELSE IF isoparse_raises(d) THEN <<>>
    ELSE LET due_naive == to_manila_naive(d)
             name      == Get(event, "context_name", "None")
         IN
         IF ~in_window(due_naive, t, off) THEN <<>>
         ELSE <<[title    |-> Get(event, "title", "Untitled Event"),
                 due_date |-> due_naive,
                 course   |-> IF name \notin {"None", ""} THEN name
                              ELSE Get(event, "context_code", "Calendar"),
                 type     |-> "Calendar Event",
                 url      |-> Get(event, "html_url", NoUrl),
                 raw      |-> event]>>

\* assignment_done without the submission state
assignment_done_flag_only(assignment) ==
    Get(assignment, "has_submitted_submissions", FALSE)

\* lines 559-563: the assignment is complete
assignment_done(assignment) ==
    LET submission == IF HasKey(assignment, "submission")
                      THEN assignment.submission ELSE <<>>
    IN  \/ Get(assignment, "has_submitted_submissions", FALSE)
        \/ Get(submission, "workflow_state", "None") \in {"submitted", "graded", "complete"}

\* lines 557-608: one assignment gives one task or none
assignment_task(assignment, t, off) ==
    IF assignment_done(assignment) THEN <<>>
    ELSE IF ~Truthy(Get(assignment, "due_at", NoDate)) THEN <<>>
    ELSE IF isoparse_raises(assignment.due_at) THEN <<>>
    ELSE LET due_naive == to_manila_naive(assignment.due_at) IN
         IF ~in_window(due_naive, t, off) THEN <<>>
         ELSE IF ~HasKey(assignment, "name") THEN <<>>
         ELSE <<[title    |-> assignment.name,
                 due_date |-> due_naive,
                 course   |-> Get(assignment, "course_name", "Unknown"),
                 type     |-> "Assignment",
                 url      |-> IF Get(assignment, "course_id", None) # None
                                 /\ Get(assignment, "id", None) # None
                              THEN BaseUrl \o "/courses/" \o ToString(assignment.course_id)
                                   \o "/assignments/" \o ToString(assignment.id)
                              ELSE NoUrl,
                 raw      |-> assignment]>>

RECURSIVE note_tasks(_, _, _)
note_tasks(notes, t, off) ==
    IF notes = <<>> THEN <<>>
    ELSE note_task(Head(notes), t, off) \o note_tasks(Tail(notes), t, off)

RECURSIVE event_tasks(_, _, _)
event_tasks(events, t, off) ==
    IF events = <<>> THEN <<>>
    ELSE event_task(Head(events), t, off) \o event_tasks(Tail(events), t, off)

RECURSIVE assignment_tasks(_, _, _)
assignment_tasks(assignments, t, off) ==
    IF assignments = <<>> THEN <<>>
    ELSE assignment_task(Head(assignments), t, off)
         \o assignment_tasks(Tail(assignments), t, off)

\* insert_by_due placing a task before the tasks due at the same time
RECURSIVE insert_before_equal(_, _)
insert_before_equal(task, sorted) ==
    IF sorted = <<>> THEN <<task>>
    ELSE IF Head(sorted).due_date < task.due_date
    THEN <<Head(sorted)>> \o insert_before_equal(task, Tail(sorted))
    ELSE <<task>> \o sorted

\* list.sort(key=lambda x: x['due_date']): stable, ascending
RECURSIVE insert_by_due(_, _)
insert_by_due(task, sorted) ==
    IF sorted = <<>> THEN <<task>>
    ELSE IF Head(sorted).due_date <= task.due_date
    THEN <<Head(sorted)>> \o insert_by_due(task, Tail(sorted))
    ELSE <<task>> \o sorted

RECURSIVE sort_by_due(_)
sort_by_due(list) ==
    IF list = <<>> THEN <<>>
    ELSE insert_by_due(list[Len(list)], sort_by_due(SubSeq(list, 1, Len(list) - 1)))

\* lines 469-473: one GET per course, each assignment labelled with its course
with_course_name(assignment, name) ==
    [k \in DOMAIN assignment \cup {"course_name"} |->
        IF k = "course_name" THEN name ELSE assignment[k]]

RECURSIVE label_all(_, _)
label_all(assignments, name) ==
    IF assignments = <<>> THEN <<>>
    ELSE <<with_course_name(Head(assignments), name)>> \o label_all(Tail(assignments), name)

\* resps maps a course id to the response its assignments request gets
RECURSIVE fetch_all_assignments(_, _)
fetch_all_assignments(course_list, resps) ==
    IF course_list = <<>> THEN [ret |-> <<>>, reqs |-> <<>>]
    ELSE LET course == Head(course_list)
             first  == get_assignments(course.id, resps[course.id])
             rest   == fetch_all_assignments(Tail(course_list), resps)
         IN  [ret  |-> label_all(first.ret, course.name) \o rest.ret,
              reqs |-> first.reqs \o rest.reqs]

\* lines 617-629: the row of task number idx (0-based row key)
table_row(task, idx, t) ==
    [key    |-> idx,
     due    |-> strftime_md_hm(task.due_date),
     status |-> IF date_of(task.due_date) = date_of(now_manila_of(t))
                THEN "Today" ELSE "Upcoming",
     course |-> task.course,
     title  |-> task.title,
     type   |-> task.type]

table_rows(task_list, t) ==
    [i \in 1..Len(task_list) |-> table_row(task_list[i], i - 1, t)]

\* line 626: task["title"][:50] raises TypeError on a null title, outside
\* every try of refresh_tasks
title_str_raises(task) == task.title = "None"

\* lines 617-629: the number of rows added before the loop ends or raises
RECURSIVE rows_added(_, _)
rows_added(task_list, add_row_fails) ==
    IF task_list = <<>> THEN 0
    ELSE IF title_str_raises(Head(task_list)) \/ add_row_fails THEN 0
    ELSE 1 + rows_added(Tail(task_list), add_row_fails)

\* refresh_tasks with self.canvas set.  R holds the response to each request
\* (R.assignments by course id), t the instant, off the machine's utcoffset;
\* add_row_fails tells whether DataTable.add_row raises (a table whose
\* columns were never added cannot take a five-cell row in every version of
\* the widget library).
refresh_tasks(R, t, off, add_row_fails) ==
    LET got_courses == get_active_courses(R.courses)
        got_notes   == get_planner_notes(R.notes)
        got_events  == get_calendar_events(cutoff_of(t, off), future_of(t, off), R.events)
        got_assign  == fetch_all_assignments(got_courses.ret, R.assignments)
        unsorted    == note_tasks(got_notes.ret, t, off)
                       \o event_tasks(got_events.ret, t, off)
                       \o assignment_tasks(got_assign.ret, t, off)
        sorted      == sort_by_due(unsorted)
        added       == rows_added(sorted, add_row_fails)
        broke       == added < Len(sorted)
    IN  [courses |-> got_courses.ret,
         tasks   |-> sorted,
         reqs    |-> got_courses.reqs \o got_notes.reqs \o got_events.reqs
                     \o got_assign.reqs,
         rows    |-> SubSeq(table_rows(sorted, t), 1, added),
         got     |-> [courses |-> got_courses.ret, notes |-> got_notes.ret,
                      events |-> got_events.ret, assignments |-> got_assign.ret],
         notice  |-> IF broke THEN <<>>
                     ELSE <<"Loaded " \o ToString(Len(sorted)) \o " tasks">>,
         raised  |-> broke]

----------------------------------------------------------------------------
(* The upstream service and the network                                    *)

\* give the items of a list their ids, base + position
with_ids(items, base) ==
    [i \in 1..Len(items) |->
        [k \in DOMAIN items[i] \cup {"id"} |->
            IF k = "id" THEN base + i ELSE items[i][k]]]

\* the ways to split at most n items over notes, events and assignments
Splits(cs, n) ==
    {x \in (0..n) \X (0..n) \X (IF cs = <<>> THEN {0} ELSE 0..n) :
        x[1] + x[2] + x[3] <= n}

\* all upstream contents with course list cs and at most n items in all
Servers(cs, Notes, Events, Assignments, n) ==
    UNION {
      {[courses |-> cs, notes |-> with_ids(ns, 10), events |-> with_ids(es, 20),
        assignments |-> with_ids(as, 30)] :
          ns \in [1..x[1] -> Notes], es \in [1..x[2] -> Events],
          as \in [1..x[3] -> Assignments]} :
      x \in Splits(cs, n)}

\* how a GET can end: a decodable 200 ("ok"), another status, an exception
\* raised by the request, an exception raised by decoding the body
GetResponse(kind, body) ==
    CASE kind = "ok"      -> [exc |-> "none", status |-> HTTP_OK, body |-> body]
      [] kind = "status"  -> [exc |-> "none", status |-> 500, body |-> <<>>]
      [] kind = "request" -> [exc |-> "request", status |-> 0, body |-> <<>>]
      [] kind = "decode"  -> [exc |-> "decode", status |-> HTTP_OK, body |-> <<>>]

CourseIds(srv) == {srv.courses[i].id : i \in 1..Len(srv.courses)}

AssignmentsOfCourse(srv, id) ==
    SelectSeq(srv.assignments, LAMBDA a : a.course_id = id)

\* the responses one refresh can meet: kinds says how each request ends
RefreshResponses(srv, kinds) ==
    [courses     |-> GetResponse(kinds.courses, srv.courses),
     notes       |-> GetResponse(kinds.notes, srv.notes),
     events      |-> GetResponse(kinds.events, srv.events),
     assignments |-> [id \in CourseIds(srv) |->
                        GetResponse(kinds.assignments[id], AssignmentsOfCourse(srv, id))]]

\* the ways the requests of one refresh can end; an invalid token is never
\* answered 200
KindChoices(valid, Kinds, ids) ==
    LET All == [courses : Kinds, notes : Kinds, events : Kinds,
                assignments : [ids -> Kinds]]
    IN  IF valid THEN All
        ELSE {k \in All : /\ "ok" \notin {k.courses, k.notes, k.events}
                          /\ \A id \in ids : k.assignments[id] # "ok"}

\* how a POST can end, with the text of the body or of the exception
PostKinds == {"created", "status", "request", "decode"}

PostResponse(kind) ==
    CASE kind = "created" -> [exc |-> "none", status |-> HTTP_CREATED,
                              text |-> "{id: 1}", msg |-> ""]
      [] kind = "status"  -> [exc |-> "none", status |-> 500,
                              text |-> "{errors: unauthorized}", msg |-> ""]
      [] kind = "request" -> [exc |-> "request", status |-> 0,
                              text |-> "", msg |-> "Read timed out"]
      [] kind = "decode"  -> [exc |-> "decode", status |-> HTTP_OK,
                              text |-> "<html>", msg |-> "Expecting value"]

----------------------------------------------------------------------------
(* The add-task form: AddTaskScreen.handle_create                          *)

\* what the user can have typed: a date text is [date, hh, mm] or BadDate
BadDate == [date |-> 0, hh |-> 99, mm |-> 99]

strptime_raises(text) == text.hh > 23 \/ text.mm > 59 \/ text.date < 1

strptime(text) == [ord |-> text.date, min |-> text.hh * 60 + text.mm]

\* the instant 0 falls on day EpochOrdinal
Today == EpochOrdinal + Clock0 \div Day

Titles       == {"", "Essay"}
Descriptions == {"ch. 3"}
DueTexts     == {BadDate,
                 [date |-> Today + 1,  hh |-> 15, mm |-> 0],
                 [date |-> Today + 1,  hh |-> 23, mm |-> 30],
                 [date |-> MAXORDINAL, hh |-> 23, mm |-> 30]}

\* the values of the course selector: "None" or str(c['id'])
CourseChoices(course_list) ==
    {"None"} \cup {ToString(course_list[i].id) : i \in 1..Len(course_list)}

\* int(course_id) if course_id and course_id != "None" else None
course_id_int(choice, course_list) ==
    IF choice = "None" THEN None
    ELSE LET i == CHOOSE j \in 1..Len(course_list) :
                      ToString(course_list[j].id) = choice
         IN  course_list[i].id

\* result['method'].replace('_', ' ').title()
method_title(method) ==
    CASE method = "planner_note"   -> "Planner Note"
      [] method = "calendar_event" -> "Calendar Event"
      [] OTHER -> method

----------------------------------------------------------------------------
(* The application: class CanvasTUI                                        *)

Env == <<configured, tokenValid, tz>>

NoData == [title |-> "None"]

\* no run of refresh_tasks got as far as its fetches
NoGot == <<>>

\* a handler that does not fetch: the lists of the application stay
NoRefresh == got' = NoGot /\ held' = tasks /\ UNCHANGED <<courses, tasks, rows>>

\* a handler that neither takes a form nor posts
NoPost == replies' = <<>> /\ submitted' = NoData

\* RefreshEffect without the reset of line 454: the new tasks join the old
RefreshEffect_keeping(r, reqs, said) ==
    /\ courses' = r.courses
    /\ tasks' = sort_by_due(tasks \o r.tasks)
    /\ rows' = r.rows
    /\ http' = reqs \o r.reqs
    /\ notice' = said \o r.notice
    /\ pc' = IF r.raised THEN "crashed" ELSE "idle"
    /\ refreshes' = 1
    /\ got' = r.got
    /\ held' = tasks

\* the effect of one run of refresh_tasks whose outcome is r, started by a
\* handler that had already issued reqs and shown said
RefreshEffect(r, reqs, said) ==
    /\ courses' = r.courses
    /\ tasks' = r.tasks
    /\ rows' = r.rows
    /\ http' = reqs \o r.reqs
    /\ notice' = said \o r.notice
    /\ pc' = IF r.raised THEN "crashed" ELSE "idle"
    /\ refreshes' = 1
    /\ got' = r.got
    /\ held' = tasks

\* a table without columns may or may not take a row
AddRowFailures == IF columns THEN {FALSE} ELSE BOOLEAN

on_mount(Kinds) ==
    /\ pc = "start"
    /\ last' = "on_mount"
    /\ NoPost
    /\ result' = NoResult
    /\ browser' = NoUrl
    /\ UNCHANGED <<Env, clock, server, fetched>>
    /\ IF ~configured
       THEN /\ notice' = <<"Canvas not configured. Edit ~/.config/canvas-tui/config.json">>
            /\ pc' = "idle"
            /\ http' = <<>>
            /\ refreshes' = 0
            /\ UNCHANGED <<canvas, columns>>
            /\ NoRefresh
       ELSE \E vk \in {k \in Kinds : k = "ok" => tokenValid} :
            LET valid == validate_token(GetResponse(vk, <<>>)) IN
            /\ canvas' = "CanvasAPI"
            /\ IF ~valid.ret
               THEN /\ notice' = <<"Invalid Canvas token">>
                    /\ pc' = "idle"
                    /\ http' = valid.reqs
                    /\ refreshes' = 0
                    /\ UNCHANGED columns
                    /\ NoRefresh
               ELSE /\ columns' = TRUE
                    /\ \E k \in KindChoices(tokenValid, Kinds, CourseIds(server)) :
                         RefreshEffect(
                           refresh_tasks(RefreshResponses(server, k), clock, tz, FALSE),
                           valid.reqs, <<>>)

\* key r.  With self.canvas still None the first gateway call raises
\* AttributeError, which nothing catches.
action_refresh(Kinds) ==
    /\ pc = "idle"
    /\ last' = "action_refresh"
    /\ NoPost
    /\ result' = NoResult
    /\ browser' = NoUrl
    /\ UNCHANGED <<Env, clock, server, canvas, columns, fetched>>
    /\ IF canvas = "None"
       THEN /\ pc' = "crashed"
            /\ http' = <<>>
            /\ notice' = <<>>
            /\ refreshes' = 1
            /\ NoRefresh
       ELSE \E k \in KindChoices(tokenValid, Kinds, CourseIds(server)),
               fails \in AddRowFailures :
               RefreshEffect(
                 refresh_tasks(RefreshResponses(server, k), clock, tz, fails),
                 <<>>, <<>>)

\* key a
action_add_task ==
    /\ pc = "idle"
    /\ last' = "action_add_task"
    /\ NoPost
    /\ http' = <<>>
    /\ result' = NoResult
    /\ refreshes' = 0
    /\ browser' = NoUrl
    /\ IF canvas = "None"
       THEN /\ notice' = <<"Canvas not connected">>
            /\ pc' = "idle"
       ELSE /\ notice' = <<>>
            /\ pc' = "form"
    /\ NoRefresh
    /\ UNCHANGED <<Env, clock, server, canvas, columns, fetched>>

\* the Cancel button: dismiss(None), handle_result does nothing
handle_cancel ==
    /\ pc = "form"
    /\ pc' = "idle"
    /\ last' = "handle_cancel"
    /\ NoPost
    /\ http' = <<>>
    /\ notice' = <<>>
    /\ result' = NoResult
    /\ refreshes' = 0
    /\ browser' = NoUrl
    /\ NoRefresh
    /\ UNCHANGED <<Env, clock, server, canvas, columns, fetched>>

\* an invalid token is never answered "created"
PostChoices(Kinds) == {k \in Kinds : k = "created" => tokenValid}

\* create_canvas_task with self.refresh_tasks() after the if: it runs
\* whatever the result
create_canvas_task_refreshing(task_data, GKinds, PKinds) ==
    \E k1 \in PostChoices(PKinds) :
    \* the second response exists only if a second request will be issued
    \E k2 \in IF k1 = "created" THEN {"status"} ELSE PostChoices(PKinds) :
      LET made == create_task(task_data.title, task_data.description,
                              task_data.due_date, task_data.course_id,
                              PostResponse(k1), PostResponse(k2))
          posts == SelectSeq(made.reqs, LAMBDA q : q.method = "POST")
      IN
      /\ result' = made.ret
      /\ submitted' = task_data
      /\ replies' = SubSeq(<<PostResponse(k1), PostResponse(k2)>>, 1, Len(posts))
      /\ IF made.raised
         THEN /\ pc' = "crashed"
              /\ http' = made.reqs
              /\ notice' = <<"Creating task in Canvas...">>
              /\ refreshes' = 0
              /\ NoRefresh
         ELSE IF made.ret.success
         THEN \E k \in KindChoices(tokenValid, GKinds, CourseIds(server)),
                 fails \in AddRowFailures :
                 RefreshEffect(
                   refresh_tasks(RefreshResponses(server, k), clock, tz, fails),
                   made.reqs,
                   <<"Creating task in Canvas...",
                     "Task created as " \o method_title(made.ret.method) \o "!">>)
         ELSE \E k \in KindChoices(tokenValid, GKinds, CourseIds(server)),
                 fails \in AddRowFailures :
                 RefreshEffect(
                   refresh_tasks(RefreshResponses(server, k), clock, tz, fails),
                   made.reqs,
                   <<"Creating task in Canvas...",
                     "Failed to create task: "
                       \o Get(made.ret, "error", "Unknown error")>>)

\* create_canvas_task(task_data), reached from the Create button through
\* dismiss(data) and handle_result
create_canvas_task(task_data, GKinds, PKinds) ==
    \E k1 \in PostChoices(PKinds) :
    \* the second response exists only if a second request will be issued
    \E k2 \in IF k1 = "created" THEN {"status"} ELSE PostChoices(PKinds) :
      LET made == create_task(task_data.title, task_data.description,
                              task_data.due_date, task_data.course_id,
                              PostResponse(k1), PostResponse(k2))
          posts == SelectSeq(made.reqs, LAMBDA q : q.method = "POST")
      IN
      /\ result' = made.ret
      /\ submitted' = task_data
      /\ replies' = SubSeq(<<PostResponse(k1), PostResponse(k2)>>, 1, Len(posts))
      /\ IF made.raised
         THEN /\ pc' = "crashed"
              /\ http' = made.reqs
              /\ notice' = <<"Creating task in Canvas...">>
              /\ refreshes' = 0
              /\ NoRefresh
         ELSE IF made.ret.success
         THEN \E k \in KindChoices(tokenValid, GKinds, CourseIds(server)),
                 fails \in AddRowFailures :
                 RefreshEffect(
                   refresh_tasks(RefreshResponses(server, k), clock, tz, fails),
                   made.reqs,
                   <<"Creating task in Canvas...",
                     "Task created as " \o method_title(made.ret.method) \o "!">>)
         ELSE /\ pc' = "idle"
              /\ http' = made.reqs
              /\ notice' = <<"Creating task in Canvas...",
                             "Failed to create task: "
                               \o Get(made.ret, "error", "Unknown error")>>
              /\ refreshes' = 0
              /\ NoRefresh

\* the Create Task button
handle_create(GKinds, PKinds) ==
    /\ pc = "form"
    /\ last' = "handle_create"
    /\ browser' = NoUrl
    /\ UNCHANGED <<Env, clock, server, canvas, columns, fetched>>
    /\ \E title \in Titles, description \in Descriptions, due_text \in DueTexts,
          choice \in CourseChoices(courses) :
         IF title = ""
         THEN /\ notice' = <<"Title is required">>
              /\ pc' = "form"
              /\ http' = <<>>
              /\ replies' = <<>>
              /\ submitted' = NoData
              /\ result' = NoResult
              /\ refreshes' = 0
              /\ NoRefresh
         ELSE IF strptime_raises(due_text)
         THEN /\ notice' = <<"Invalid date format. Use YYYY-MM-DD HH:MM">>
              /\ pc' = "form"
              /\ http' = <<>>
              /\ replies' = <<>>
              /\ submitted' = NoData
              /\ result' = NoResult
              /\ refreshes' = 0
              /\ NoRefresh
         ELSE create_canvas_task(
                [title |-> title, description |-> description,
                 due_date |-> strptime(due_text),
                 course_id |-> course_id_int(choice, courses)],
                GKinds, PKinds)

\* table.row_key(table.cursor_row), line 659, is a call into the widget
\* library, which is not part of the source.  The DataTable of the library
\* documents no method row_key: the call raises AttributeError.  A table that
\* answers the call hands back the key of the row, which add_row stored as a
\* RowKey object wrapping idx (self.tasks[row_key] then raises TypeError),
\* or the index itself.
RowKeyOutcomes == {"AttributeError", "RowKey", "int"}

\* webbrowser.open(url) returns, or raises with the text "no browser"
BrowserOutcomes == {"opened", "raised"}

\* key enter.  The cursor is on one of the rows; its key indexes self.tasks.
action_open_task ==
    /\ pc = "idle"
    /\ last' = "action_open_task"
    /\ NoPost
    /\ http' = <<>>
    /\ result' = NoResult
    /\ refreshes' = 0
    /\ NoRefresh
    /\ UNCHANGED <<Env, clock, server, canvas, columns, fetched>>
    /\ \E outcome \in RowKeyOutcomes :
       IF outcome = "AttributeError"
       THEN /\ pc' = "crashed"
            /\ notice' = <<>>
            /\ browser' = NoUrl
       ELSE
       /\ pc' = "idle"
       /\ IF rows = <<>>
          THEN /\ notice' = <<"No task selected">>
               /\ browser' = NoUrl
          ELSE \E cursor_row \in 1..Len(rows) :
               LET row_key == rows[cursor_row].key IN
               IF outcome = "RowKey" \/ row_key + 1 > Len(tasks)
               THEN /\ notice' = <<"Selected task not found">>
                    /\ browser' = NoUrl
               ELSE IF tasks[row_key + 1].url = NoUrl
               THEN /\ notice' = <<"No URL available for this task">>
                    /\ browser' = NoUrl
               ELSE \E opening \in BrowserOutcomes :
                    /\ notice' = IF opening = "opened"
                                 THEN <<"Opened task in browser">>
                                 ELSE <<"Failed to open browser: no browser">>
                    /\ browser' = tasks[row_key + 1].url

----------------------------------------------------------------------------
(* Spec: the application from start-up on, against a small upstream        *)

Soon  == Clock0 + Hour
Later == Clock0 + Day

Math == [id |-> 5, name |-> "Math"]
Art  == [id |-> 7, name |-> "Art"]

SpecCourses == {<<Math>>}

SpecNotes ==
    [title : {"Read"}, todo_date : {DateStr(Soon, "Z")},
     workflow_state : {"active", "completed"}]

SpecEvents ==
    [title : {"Talk"}, start_at : {DateStr(Soon, "+08:00")},
     html_url : {BaseUrl \o "/calendar?event_id=21"}, context_code : {"user_1"}]

SpecAssignments ==
    [name : {"Essay"}, due_at : {DateStr(Later, "Z")}, course_id : {Math.id},
     submission : {[workflow_state |-> "unsubmitted"]}]

SpecServers ==
    UNION {Servers(cs, SpecNotes, SpecEvents, SpecAssignments, MaxItems) :
             cs \in SpecCourses}

NoFetch == [op |-> "none"]

\* the application object right after __init__ (lines 402-407)
Constructed ==
    /\ clock = Clock0
    /\ pc = "start"
    /\ canvas = "None"
    /\ columns = FALSE
    /\ courses = <<>>
    /\ tasks = <<>>
    /\ rows = <<>>
    /\ http = <<>>
    /\ replies = <<>>
    /\ submitted = NoData
    /\ notice = <<>>
    /\ result = NoResult
    /\ refreshes = 0
    /\ last = "init"
    /\ browser = NoUrl
    /\ fetched = NoFetch
    /\ got = NoGot
    /\ held = <<>>

\* the network of Spec answers a GET with a 200 or with another status
SpecGetKinds == {"ok", "status"}

Init ==
    /\ configured \in BOOLEAN
    /\ tokenValid \in IF configured THEN BOOLEAN ELSE {FALSE}
    /\ tz = ManilaOffset
    /\ server \in SpecServers
    /\ Constructed

Next ==
    \/ on_mount(SpecGetKinds)
    \/ action_refresh(SpecGetKinds)
    \/ action_add_task
    \/ handle_create(SpecGetKinds, PostKinds)
    \/ handle_cancel
    \/ action_open_task

Spec == Init /\ [][Next]_vars

----------------------------------------------------------------------------
(* Properties of task creation (checked under Spec)                        *)

PlannerPath  == "/api/v1/planner_notes"
CalendarPath == "/api/v1/calendar_events"

\* the last handler was the Create button with a valid form, so that
\* create_canvas_task ran
CreateRan == last = "handle_create" /\ submitted # NoData

Posts == SelectSeq(http, LAMBDA q : q.method = "POST")

PostsTo(path) == SelectSeq(Posts, LAMBDA q : q.path = path)

PlannerFailed == replies # <<>> /\ ~post_ok(replies[1])

BothFailed == Len(replies) = 2 /\ ~post_ok(replies[1]) /\ ~post_ok(replies[2])

\* C1: create_task posts the planner note first, always; it posts the
\* calendar event if and only if the planner-note POST failed; a planner
\* success is returned as it is, with no calendar POST; when both fail the
\* result has success = false and method = 'none'; nothing else is posted.
C1_StrictOrder ==
    CreateRan =>
        /\ Posts # <<>>
        /\ Posts[1].path = PlannerPath
        /\ Len(PostsTo(PlannerPath)) = 1
        /\ \A i \in 1..Len(Posts) : Posts[i].path \in {PlannerPath, CalendarPath}
        /\ (Len(PostsTo(CalendarPath)) = 1) <=> PlannerFailed
        /\ Len(PostsTo(CalendarPath)) <= 1
        /\ ~PlannerFailed =>
              /\ Len(Posts) = 1
              /\ result = [success |-> TRUE, data |-> replies[1].text,
                           method |-> "planner_note"]
        /\ BothFailed =>
              /\ result.success = FALSE
              /\ result.method = "none"

\* C2: when both tiers fail, the error shown to the user is the text the
\* upstream produced: the body of a failed response or the text of the
\* exception of a failed request.
UpstreamErrors == {post_failure(replies[i]).error : i \in 1..Len(replies)}

C2_UpstreamErrorShown ==
    (CreateRan /\ BothFailed) =>
        \E e \in UpstreamErrors :
            notice[Len(notice)] = "Failed to create task: " \o e

\* the token was refused at start-up: on_mount made the gateway and returned
\* before the table was set up
AuthFailed == pc # "start" /\ canvas = "CanvasAPI" /\ ~columns

\* C3: once token validation has failed at start-up, no handler issues an
\* HTTP request any more.
C3_NoCallsAfterAuthFailure ==
    (AuthFailed /\ last # "on_mount") => http = <<>>

\* C4: with the configuration missing or incomplete the application idles:
\* no handler issues an HTTP request, none ends in an exception that escapes
\* it, and the task list stays empty.
C4_UnconfiguredIdles ==
    (~configured /\ pc # "start") =>
        /\ http = <<>>
        /\ pc # "crashed"
        /\ tasks = <<>>

\* the minutes from the ISO text a to the ISO text b
MinutesBetween(a, b) ==
    (b.date - a.date) * MinutesPerDay + (b.hh - a.hh) * 60 + (b.mm - a.mm)

\* C10: a calendar-event POST follows a failed planner-note POST and carries
\* the title behind the decorating prefix, a description made of the title
\* and the description, start_at equal to the requested due time, end_at
\* exactly one hour after start_at, and a course context only when a course
\* id was given.
C10_CalendarEventPayload ==
    \A i \in 1..Len(Posts) :
        Posts[i].path = CalendarPath =>
            LET event == Posts[i].json.calendar_event IN
            /\ i = 2
            /\ PlannerFailed
            /\ event.title = "[clipboard] " \o submitted.title
            /\ event.description =
                  "Task: " \o submitted.title \o "\n\n" \o submitted.description
            /\ fromisoformat(event.start_at) = submitted.due_date
            /\ event.start_at.tz = ""
            /\ MinutesBetween(event.start_at, event.end_at) = 60
            /\ event.end_at.hh \in 0..23
            /\ event.end_at.mm \in 0..59
            /\ event.end_at.date <= MAXORDINAL
            /\ HasKey(event, "context_code") =>
                  /\ submitted.course_id # None
                  /\ event.context_code = "course_" \o ToString(submitted.course_id)

\* a calendar event posted for a course, ending on the day after it starts
C10_Witness ==
    /\ Len(Posts) = 2
    /\ Posts[2].path = CalendarPath
    /\ HasKey(Posts[2].json.calendar_event, "context_code")
    /\ Posts[2].json.calendar_event.end_at.date
         = Posts[2].json.calendar_event.start_at.date + 1

----------------------------------------------------------------------------
(* SpecFetch: the four fetch operations, each called on its own with every *)
(* way the network can answer                                              *)

FetchItems == {[id |-> 1, name |-> "a"], [id |-> 2, name |-> "b"]}

FetchBodies == SeqsUpTo(FetchItems, MaxFetchItems)

\* the answers to a GET: the request raises, or a response arrives whose
\* status is 200 or not and whose body decodes or not
FetchResponses ==
    [exc : {"none", "request", "decode"}, status : {200, 201, 401, 500},
     body : FetchBodies]

\* every behaviour of SpecFetch makes one call
Fetched(op, resp, call) ==
    /\ fetched = NoFetch
    /\ fetched' = [op |-> op, resp |-> resp, ret |-> call.ret, reqs |-> call.reqs,
                   raised |-> call.raised]
    /\ UNCHANGED <<Env, clock, server, pc, canvas, columns, courses, tasks, rows,
                   http, replies, submitted, notice, result, refreshes, last, browser,
                   got, held>>

call_get_active_courses ==
    \E resp \in FetchResponses :
        Fetched("get_active_courses", resp, get_active_courses(resp))

call_get_assignments ==
    \E resp \in FetchResponses, course_id \in {Math.id, Art.id} :
        Fetched("get_assignments", resp, get_assignments(course_id, resp))

call_get_planner_notes ==
    \E resp \in FetchResponses :
        Fetched("get_planner_notes", resp, get_planner_notes(resp))

call_get_calendar_events ==
    \E resp \in FetchResponses :
        Fetched("get_calendar_events", resp,
                get_calendar_events(cutoff_of(clock, tz), future_of(clock, tz), resp))

EmptyServer == [courses |-> <<>>, notes |-> <<>>, events |-> <<>>, assignments |-> <<>>]

\* a gateway made by on_mount, before any refresh
InitFetch ==
    /\ configured = TRUE
    /\ tokenValid = TRUE
    /\ tz \in MachineOffsets
    /\ server = EmptyServer
    /\ clock = Clock0
    /\ pc = "idle"
    /\ canvas = "CanvasAPI"
    /\ columns = TRUE
    /\ courses = <<>>
    /\ tasks = <<>>
    /\ rows = <<>>
    /\ http = <<>>
    /\ replies = <<>>
    /\ submitted = NoData
    /\ notice = <<>>
    /\ result = NoResult
    /\ refreshes = 0
    /\ last = "on_mount"
    /\ browser = NoUrl
    /\ fetched = NoFetch
    /\ got = NoGot
    /\ held = <<>>

NextFetch ==
    \/ call_get_active_courses
    \/ call_get_assignments
    \/ call_get_planner_notes
    \/ call_get_calendar_events

SpecFetch == InitFetch /\ [][NextFetch]_vars

FetchFailed(resp) == resp.exc # "none" \/ resp.status # HTTP_OK

\* C6: a fetch operation issues exactly one GET per call, retries nothing,
\* lets no exception escape, and returns an empty list on any non-200
\* response and on any exception raised by the request or by the decoding.
C6_FetchDegradesToEmpty ==
    fetched # NoFetch =>
        /\ Len(fetched.reqs) = 1
        /\ fetched.reqs[1].method = "GET"
        /\ ~fetched.raised
        /\ FetchFailed(fetched.resp) => fetched.ret = <<>>

\* a 200 whose non-empty body does not decode, and a non-200 with a body
C6_Witness ==
    /\ fetched # NoFetch
    /\ fetched.op = "get_assignments"
    /\ fetched.resp.body # <<>>
    /\ fetched.resp.exc = "none"
    /\ fetched.resp.status = 201
    /\ fetched.ret = <<>>

----------------------------------------------------------------------------
(* SpecAgg: start-up and refresh over an upstream that answers every       *)
(* request and lists items of every shape the filters tell apart           *)

\* instants whose Manila reading is one second before now, now, now + 30
\* days, and one second past now + 30 days
AggInstants == {Clock0 - 1, Clock0, Clock0 + Window, Clock0 + Window + 1}

AggDates ==
    {DateStr(t, "") : t \in AggInstants}
    \cup {DateStr(Clock0, "+08:00"), DateStr(Clock0 + Window + 1, "-05:00"),
          DateStr(Clock0 + Window, "Z"), NoDate, Garbage}

\* the day after today as a bare date: midnight, no zone
AllDayDate == [wall |-> (Clock0 \div Day + 1) * Day, zone |-> ""]

AggNotes ==
    [title : {"Read"}, todo_date : AggDates, workflow_state : {"active", "completed"}]
    \cup [title : {"Read"}, todo_date : AggDates]

AggEvents ==
    [title : {"Talk"}, start_at : AggDates, context_code : {"user_1"}]
    \cup [title : {"Talk"}, start_at : {NoDate}, all_day_date : {AllDayDate, NoDate},
          context_code : {"user_1"}]

AggAssignments ==
    [name : {"Essay"}, due_at : AggDates, course_id : {Math.id},
     has_submitted_submissions : BOOLEAN,
     submission : [workflow_state : {"unsubmitted", "submitted", "graded"}]]
    \cup [name : {"Essay"}, due_at : AggDates, course_id : {Math.id}]

AggServers == Servers(<<Math>>, AggNotes, AggEvents, AggAssignments, MaxAggItems)

InitAgg ==
    /\ configured = TRUE
    /\ tokenValid = TRUE
    /\ tz \in MachineOffsets
    /\ server \in AggServers
    /\ Constructed

NextAgg ==
    \/ on_mount({"ok"})
    \/ action_refresh({"ok"})

SpecAgg == InitAgg /\ [][NextAgg]_vars

\* a refresh has run to its end
Refreshed == pc = "idle" /\ refreshes = 1

TaskOf(item, type) ==
    {i \in 1..Len(tasks) : tasks[i].type = type /\ tasks[i].raw.id = item.id}

Kept(item, type) == TaskOf(item, type) # {}

Parses(d) == Truthy(d) /\ ~isoparse_raises(d)

\* the window the specification states: now <= d <= now + 30 days, both
\* read in the reference zone
InStatedWindow(d) ==
    /\ now_manila_of(clock) <= to_manila_naive(d)
    /\ to_manila_naive(d) <= now_manila_of(clock) + Window

NoteEligible(note) ==
    /\ Get(note, "workflow_state", "None") \in {"None", "active"}
    /\ Parses(Get(note, "todo_date", NoDate))

EventEligible(event) == Parses(event_date(event))

AssignmentEligible(assignment) ==
    /\ ~Get(assignment, "has_submitted_submissions", FALSE)
    /\ (HasKey(assignment, "submission") =>
          assignment.submission.workflow_state \notin {"submitted", "graded", "complete"})
    /\ Parses(Get(assignment, "due_at", NoDate))

\* C5: for each source kind an otherwise eligible item is kept by the
\* refresh if and only if its normalized due time d satisfies
\* now <= d <= now + 30 days in the reference zone, whatever the zone of
\* the machine.
C5_WindowInReferenceZone ==
    Refreshed =>
        /\ \A i \in 1..Len(server.notes) :
             NoteEligible(server.notes[i]) =>
               (Kept(server.notes[i], "Planner Note")
                  <=> InStatedWindow(server.notes[i].todo_date))
        /\ \A i \in 1..Len(server.events) :
             EventEligible(server.events[i]) =>
               (Kept(server.events[i], "Calendar Event")
                  <=> InStatedWindow(event_date(server.events[i])))
        /\ \A i \in 1..Len(server.assignments) :
             AssignmentEligible(server.assignments[i]) =>
               (Kept(server.assignments[i], "Assignment")
                  <=> InStatedWindow(server.assignments[i].due_at))

\* C7: the task list never holds an assignment whose submission is
\* 'graded' or 'submitted', nor one flagged as having submitted
\* submissions, whatever its due date.
C7_NoCompletedAssignment ==
    \A i \in 1..Len(tasks) :
        tasks[i].type = "Assignment" =>
            /\ ~Get(tasks[i].raw, "has_submitted_submissions", FALSE)
            /\ HasKey(tasks[i].raw, "submission") =>
                  tasks[i].raw.submission.workflow_state \notin {"graded", "submitted"}

\* a graded assignment due inside the window was fetched and left out
C7_Witness ==
    /\ Refreshed
    /\ \E i \in 1..Len(server.assignments) :
         LET a == server.assignments[i] IN
         /\ HasKey(a, "submission")
         /\ a.submission.workflow_state = "graded"
         /\ ~a.has_submitted_submissions
         /\ Parses(a.due_at)
         /\ in_window(to_manila_naive(a.due_at), clock, tz)
         /\ ~Kept(a, "Assignment")

\* C8: the task list never holds a planner note whose workflow state is
\* present and not 'active'; a note whose state is 'active' or absent, with
\* a date that parses and falls inside the window the refresh applies, is
\* in the list.
C8_PlannerNoteStateFilter ==
    /\ \A i \in 1..Len(tasks) :
         tasks[i].type = "Planner Note" =>
            Get(tasks[i].raw, "workflow_state", "None") \in {"None", "active"}
    /\ Refreshed =>
         \A i \in 1..Len(server.notes) :
            LET note == server.notes[i] IN
            (/\ Get(note, "workflow_state", "None") \in {"None", "active"}
             /\ Parses(note.todo_date)
             /\ in_window(to_manila_naive(note.todo_date), clock, tz))
            => Kept(note, "Planner Note")

\* a completed note due inside the window was fetched and left out
C8_Witness ==
    /\ Refreshed
    /\ \E i \in 1..Len(server.notes) :
         LET note == server.notes[i] IN
         /\ HasKey(note, "workflow_state")
         /\ note.workflow_state = "completed"
         /\ Parses(note.todo_date)
         /\ in_window(to_manila_naive(note.todo_date), clock, tz)
         /\ ~Kept(note, "Planner Note")

----------------------------------------------------------------------------
(* SpecSort: start-up and refresh over items that all pass the filters and *)
(* are due at one of three times, two courses                              *)

SortInstants == {Clock0 + Hour, Clock0 + 2 * Hour, Clock0 + Day}

SortNotes ==
    [title : {"Read"}, workflow_state : {"active"},
     todo_date : {DateStr(t, "Z") : t \in SortInstants}]

SortEvents ==
    [title : {"Talk"}, context_code : {"user_1"},
     start_at : {DateStr(t, "+08:00") : t \in SortInstants}]

SortAssignments ==
    [name : {"Essay"}, course_id : {Math.id, Art.id},
     due_at : {DateStr(Clock0 + Hour, ""), DateStr(Clock0 + Day, "")}]

SortServers ==
    Servers(<<Math, Art>>, SortNotes, SortEvents, SortAssignments, MaxSortItems)

InitSort ==
    /\ configured = TRUE
    /\ tokenValid = TRUE
    /\ tz \in MachineOffsets
    /\ server \in SortServers
    /\ Constructed

NextSort ==
    \/ on_mount({"ok"})
    \/ action_refresh({"ok"})

SpecSort == InitSort /\ [][NextSort]_vars

\* the position at which refresh_tasks appended a task: notes, then events,
\* then assignments course by course, each in the order of its response
CoursePosition(id) == CHOOSE k \in 1..Len(courses) : courses[k].id = id

AppendRank(task) ==
    IF task.type = "Assignment"
    THEN 100 * CoursePosition(task.raw.course_id) + task.raw.id
    ELSE task.raw.id

\* C9: the task list is in ascending order of normalized due time, and
\* tasks due at the same time stand in the order in which they were
\* appended.
C9_SortedStable ==
    \A i \in 1..Len(tasks) : \A j \in 1..Len(tasks) :
        i < j =>
            /\ tasks[i].due_date <= tasks[j].due_date
            /\ tasks[i].due_date = tasks[j].due_date =>
                  AppendRank(tasks[i]) < AppendRank(tasks[j])

\* three notes listed with due times D2, D1, D2 came out as D1, D2, D2, the
\* two D2 in their listed order
C9_Witness ==
    /\ Refreshed
    /\ Len(server.notes) = 3
    /\ to_manila_naive(server.notes[2].todo_date) < to_manila_naive(server.notes[1].todo_date)
    /\ server.notes[3].todo_date = server.notes[1].todo_date
    /\ Len(tasks) = 3
    /\ <<tasks[1].raw.id, tasks[2].raw.id, tasks[3].raw.id>>
         = <<server.notes[2].id, server.notes[1].id, server.notes[3].id>>

----------------------------------------------------------------------------
(* SpecDrop: start-up and refresh over an upstream that answers every      *)
(* request and lists well-formed items next to items with a date that does *)
(* not parse, without a date, and with the title absent or null            *)

\* most items the upstream holds in SpecDrop
MaxDropItems == 2

DropNotes ==
    [title : {"Read", "None"}, todo_date : {DateStr(Soon, "Z"), Garbage}]
    \cup [todo_date : {DateStr(Soon, "Z")}]

DropEvents ==
    [title : {"Talk"}, start_at : {DateStr(Later, "+08:00"), Garbage},
     context_code : {"user_1"}]
    \cup [title : {"Talk"}, context_code : {"user_1"}]

DropAssignments ==
    [name : {"Essay", "None"}, due_at : {DateStr(Soon + Hour, ""), Garbage},
     course_id : {Math.id}]
    \cup [due_at : {DateStr(Soon + Hour, "")}, course_id : {Math.id}]

DropServers == Servers(<<Math>>, DropNotes, DropEvents, DropAssignments, MaxDropItems)

InitDrop ==
    /\ configured = TRUE
    /\ tokenValid = TRUE
    /\ tz = ManilaOffset
    /\ server \in DropServers
    /\ Constructed

NextDrop ==
    \/ on_mount({"ok"})
    \/ action_refresh({"ok"})

SpecDrop == InitDrop /\ [][NextDrop]_vars

\* the last handler ran refresh_tasks
RefreshRan == last \in {"on_mount", "action_refresh"} /\ refreshes = 1

Unparseable(d) == Truthy(d) /\ isoparse_raises(d)

\* a required string is absent or null
Lacks(item, key) == Get(item, key, "None") = "None"

BadNote(note) ==
    Unparseable(Get(note, "todo_date", NoDate)) \/ Lacks(note, "title")

BadEvent(event) ==
    Unparseable(event_date(event)) \/ ~Truthy(event_date(event))

BadAssignment(assignment) ==
    Unparseable(Get(assignment, "due_at", NoDate)) \/ Lacks(assignment, "name")

\* the upstream without its bad items
WithoutBad(srv) ==
    [courses     |-> srv.courses,
     notes       |-> SelectSeq(srv.notes, LAMBDA n : ~BadNote(n)),
     events      |-> SelectSeq(srv.events, LAMBDA e : ~BadEvent(e)),
     assignments |-> SelectSeq(srv.assignments, LAMBDA a : ~BadAssignment(a))]

AllOk(srv) ==
    [courses |-> "ok", notes |-> "ok", events |-> "ok",
     assignments |-> [id \in CourseIds(srv) |-> "ok"]]

\* what a refresh gives when every request is answered
RefreshOf(srv) == refresh_tasks(RefreshResponses(srv, AllOk(srv)), clock, tz, FALSE)

\* C11: an item whose date does not parse, or whose required fields are
\* missing, is dropped alone: the refresh runs to its end, and the task list
\* and the table are those the refresh gives without the bad items.
C11_BadItemDroppedAlone ==
    RefreshRan =>
        /\ pc = "idle"
        /\ tasks = RefreshOf(WithoutBad(server)).tasks
        /\ rows = RefreshOf(WithoutBad(server)).rows

----------------------------------------------------------------------------
(* SpecRebuild: start-up and refreshes against an upstream whose content   *)
(* changes between them and whose requests can fail                        *)

\* most items the upstream holds in SpecRebuild
MaxRebuildItems == 2

RebuildNotes ==
    [title : {"Read"}, todo_date : {DateStr(Soon, "Z")}, workflow_state : {"active"}]

RebuildServers ==
    Servers(<<Math>>, RebuildNotes, SpecEvents, SpecAssignments, MaxRebuildItems)

\* items are added to and removed from the upstream while the application
\* waits for a key
upstream_changes ==
    /\ pc = "idle"
    /\ server' \in RebuildServers \ {server}
    /\ UNCHANGED <<Env, clock, pc, canvas, columns, courses, tasks, rows, http,
                   replies, submitted, notice, result, refreshes, last, browser,
                   fetched, got, held>>

InitRebuild ==
    /\ configured = TRUE
    /\ tokenValid = TRUE
    /\ tz = ManilaOffset
    /\ server \in RebuildServers
    /\ Constructed

NextRebuild ==
    \/ on_mount(SpecGetKinds)
    \/ action_refresh(SpecGetKinds)
    \/ upstream_changes

SpecRebuild == InitRebuild /\ [][NextRebuild]_vars

\* the tasks that the lists g of one refresh give
DerivedTasks(g) ==
    sort_by_due(note_tasks(g.notes, clock, tz)
                \o event_tasks(g.events, clock, tz)
                \o assignment_tasks(g.assignments, clock, tz))

\* the task was made from an item of the lists g
MadeFrom(task, g) ==
    CASE task.type = "Planner Note" ->
           \E i \in 1..Len(g.notes) : g.notes[i] = task.raw
      [] task.type = "Calendar Event" ->
           \E i \in 1..Len(g.events) : g.events[i] = task.raw
      [] task.type = "Assignment" ->
           \E i \in 1..Len(g.assignments) : g.assignments[i] = task.raw

\* C12: after a refresh has run to its end the task list holds exactly the
\* tasks derived from the lists fetched during that refresh: every task is
\* made from a fetched item, and a task held before the refresh is in the
\* list only if its item was fetched again.
C12_RebuiltWholesale ==
    Refreshed =>
        /\ tasks = DerivedTasks(got)
        /\ Len(tasks) <= Len(got.notes) + Len(got.events) + Len(got.assignments)
        /\ \A i \in 1..Len(tasks) : MadeFrom(tasks[i], got)
        /\ \A j \in 1..Len(held) :
             (\E i \in 1..Len(tasks) : tasks[i] = held[j]) => MadeFrom(held[j], got)

\* a refresh ran on a list that held two tasks: one is gone, its item not
\* fetched, the other was fetched again and is still listed, next to a task
\* that is new
C12_Witness ==
    /\ Refreshed
    /\ last = "action_refresh"
    /\ Len(held) = 2
    /\ \E j \in 1..2 : ~MadeFrom(held[j], got)
                       /\ \A i \in 1..Len(tasks) : tasks[i] # held[j]
    /\ \E j \in 1..2 : \E i \in 1..Len(tasks) : tasks[i] = held[j]
    /\ \E i \in 1..Len(tasks) : \A j \in 1..2 : tasks[i].raw.id # held[j].raw.id

----------------------------------------------------------------------------
(* Properties of the table and of task creation as a whole (checked under  *)
(* Spec)                                                                   *)

\* the user can press a key of the main screen or has the form open
CanSelect == pc \in {"idle", "form"}

\* row number i has key i - 1 and shows task number i
RowsMatchTasks ==
    /\ Len(rows) = Len(tasks)
    /\ \A i \in 1..Len(rows) :
         /\ rows[i].key = i - 1
         /\ rows[i].title = tasks[i].title
         /\ rows[i].type = tasks[i].type
         /\ rows[i].course = tasks[i].course
         /\ rows[i].due = strftime_md_hm(tasks[i].due_date)

\* open-task handed the URL of the task of one of the rows to the browser,
\* or said that this task has none
OpenedSelected ==
    \E i \in 1..Len(rows) :
        /\ i <= Len(tasks)
        /\ IF tasks[i].url = NoUrl
           THEN browser = NoUrl /\ notice = <<"No URL available for this task">>
           ELSE browser = tasks[i].url

\* C13: whenever the user can select a row, the table has as many rows as
\* the task list has tasks and the row with key i shows task i; open-task on
\* a selected row opens the URL of the task shown in that row.
C13_RowsMatchTasks ==
    /\ CanSelect => RowsMatchTasks
    /\ (last = "action_open_task" /\ rows # <<>>) =>
          /\ pc = "idle"
          /\ OpenedSelected

\* every run of refresh_tasks starts with one GET of the course list
RefreshRuns ==
    Len(SelectSeq(http, LAMBDA q : q.method = "GET" /\ q.path = "/api/v1/courses"))

\* create_task came back with success, by the planner note or by the event
CreationSucceeded == CreateRan /\ Get(result, "success", FALSE)

\* create_task did not come back with success: both tiers failed, or the
\* second raised
CreationFailed == CreateRan /\ ~Get(result, "success", FALSE)

Cancelled == last = "handle_cancel"

\* C14: a creation that succeeds, by either tier, is followed by exactly one
\* run of refresh_tasks; a creation that fails on both tiers and a cancelled
\* form start no refresh and leave the task list and the course list as they
\* were.
C14_RefreshOnlyAfterSuccess ==
    [][/\ CreationSucceeded' =>
            /\ refreshes' = 1
            /\ RefreshRuns' = 1
            /\ got' # NoGot
       /\ (CreationFailed' \/ Cancelled') =>
            /\ refreshes' = 0
            /\ RefreshRuns' = 0
            /\ got' = NoGot
            /\ tasks' = tasks
            /\ courses' = courses
            /\ rows' = rows]_vars

\* a task created as a calendar event, after the planner note failed, and
\* the refresh that followed it changed the task list
C14_Witness ==
    /\ CreationSucceeded
    /\ result.method = "calendar_event"
    /\ RefreshRuns = 1
    /\ pc = "idle"
    /\ tasks # held

====
